---- MODULE Spec2Model ----
(***************************************************************************)
(* A model of generate_rss.py: MarkdownFile construction, the directory    *)
(* walk of collect_md_files, and the feed loop of main.                    *)
(*                                                                         *)
(* Text is modelled as a sequence of tokens.  "#" is the hash character,   *)
(* " " stands for any whitespace character (blank, line terminator), and   *)
(* the other tokens are atomic pieces of text: words and ISO dates.        *)
(* A file's content is the sequence of its first three lines.              *)
(* A path is the sequence of entry names below the root directory; names   *)
(* are integers, ordered as the file names they stand for.                 *)
(***************************************************************************)
EXTENDS Integers, Sequences, FiniteSets, TLC

\* ---------------------------------------------------------------- bounds
MaxEntries == 4      \* directory entries (files and directories) in a tree
MaxTarget == 2       \* largest max_files tried
MaxTitleLen == 3     \* tokens in a first line (parser specification)
MaxDateLen == 4      \* tokens in a third line (parser specification)

Names == {1, 2}
TitleChars == {"#", " ", "A"}
DateChars == {"#", " ", "A", "2023-01-01"}
IsoDates == {"2023-01-01", "2023-01-02"}

None == <<>>         \* Python None, for an optional integer
Inf == <<>>          \* math.inf, as a target

VARIABLES fs, max_files, pc, stack, pending, md_files, skipped, fp, handles,
          channel, included_files, idx, rendered, result, stream, md

vars == <<fs, max_files, pc, stack, pending, md_files, skipped, fp, handles,
          channel, included_files, idx, rendered, result, stream, md>>

walkVars == <<fs, max_files, stack, pending, md_files, skipped, fp, handles,
              channel, included_files, idx, rendered, result>>

\* ------------------------------------------------------------ text helpers
Ord(c) ==
  CASE c = " " -> 32
    [] c = "#" -> 35
    [] c = "2023-01-01" -> 50
    [] c = "2023-01-02" -> 51
    [] c = "A" -> 65
    [] c = "B" -> 66

RECURSIVE StrLess(_, _)
StrLess(s, t) ==
  IF t = <<>> THEN FALSE
  ELSE IF s = <<>> THEN TRUE
  ELSE IF s[1] = t[1] THEN StrLess(Tail(s), Tail(t))
  ELSE Ord(s[1]) < Ord(t[1])

startswith(s, prefix) ==
  Len(s) >= Len(prefix) /\ SubSeq(s, 1, Len(prefix)) = prefix

RECURSIVE lstrip(_, _)
lstrip(s, chars) ==
  IF s # <<>> /\ s[1] \in chars THEN lstrip(Tail(s), chars) ELSE s

RECURSIVE rstrip(_, _)
rstrip(s, chars) ==
  IF s # <<>> /\ s[Len(s)] \in chars THEN rstrip(SubSeq(s, 1, Len(s) - 1), chars) ELSE s

strip(s) == rstrip(lstrip(s, {" "}), {" "})

\* datetime.datetime.fromisoformat: TRUE iff the text is accepted.
IsIsoFormat(text) == Len(text) = 1 /\ text[1] \in IsoDates

\* date.combine(date.date(), date.time(), TZ_INFO), as a day number.
pub_date_of(text) == IF text[1] = "2023-01-01" THEN 1 ELSE 2

readline(s, n) == IF n <= Len(s) THEN s[n] ELSE <<>>

\* ------------------------------------------------------------ MarkdownFile
Raise(msg) == [exc |-> msg, title |-> <<>>, pub_date |-> 0]

NotConstructed == [exc |-> "<not constructed>", title |-> <<>>, pub_date |-> 0]

\* As MarkdownFile, with the date header test looking for "# " instead of "## ".
MarkdownFileLooseDate(s) ==
  LET title_line == readline(s, 1)
      date_line == readline(s, 3)
  IN IF ~startswith(title_line, <<"#", " ">>) THEN Raise("Missing title header")
     ELSE IF ~startswith(date_line, <<"#", " ">>) THEN Raise("Missing date header")
     ELSE LET text == strip(lstrip(date_line, {"#"}))
          IN IF ~IsIsoFormat(text) THEN Raise("Date header is not a valid ISO date")
             ELSE [exc |-> "",
                   title |-> strip(lstrip(title_line, {"#"})),
                   pub_date |-> pub_date_of(text)]

MarkdownFile(s) ==
  LET title_line == readline(s, 1)
      date_line == readline(s, 3)
  IN IF ~startswith(title_line, <<"#", " ">>) THEN Raise("Missing title header")
     ELSE IF ~startswith(date_line, <<"#", "#", " ">>) THEN Raise("Missing date header")
     ELSE LET text == strip(lstrip(date_line, {"#"}))
          IN IF ~IsIsoFormat(text) THEN Raise("Date header is not a valid ISO date")
             ELSE [exc |-> "",
                   title |-> strip(lstrip(title_line, {"#"})),
                   pub_date |-> pub_date_of(text)]

\* ------------------------------------------------------------ file systems
DirNode == [is_dir |-> TRUE, content |-> <<>>]
FileNode(c) == [is_dir |-> FALSE, content |-> c]

Alpha == << <<"#", " ", "A">>, <<" ">>, <<"#", "#", " ", "2023-01-02">> >>
Beta == << <<"#", " ", "B">>, <<" ">>, <<"#", "#", " ", "2023-01-01">> >>
NoDateHeader == << <<"#", " ", "A">>, <<" ">>, <<"A">> >>
NoTitleHeader == << <<"A">>, <<" ">>, <<"A">> >>
BadDate == << <<"#", " ", "B">>, <<" ">>, <<"#", "#", " ", "A">> >>
SampleContents == {Alpha, Beta, NoDateHeader, NoTitleHeader, BadDate}

Nodes == {DirNode} \cup {FileNode(c) : c \in SampleContents}

Parent(p) == SubSeq(p, 1, Len(p) - 1)

Extensions(S) == {Append(p, nm) : p \in S \cup {<<>>}, nm \in Names} \ S

RECURSIVE ShapesOf(_)
ShapesOf(n) ==
  IF n = 0 THEN {{}}
  ELSE LET prev == ShapesOf(n - 1)
       IN prev \cup UNION {{S \cup {q} : q \in Extensions(S)} : S \in prev}

FileSystems ==
  UNION {{f \in [S -> Nodes] : \A p \in S : (\E q \in S : Parent(q) = p) => f[p].is_dir}
         : S \in ShapesOf(MaxEntries)}

\* os.scandir(d): the entries of directory d.
scandir(d) == {p \in DOMAIN fs : Parent(p) = d}

\* ------------------------------------------------------------ ordering
RECURSIVE PathLess(_, _)
PathLess(p, q) ==
  IF q = <<>> THEN FALSE
  ELSE IF p = <<>> THEN TRUE
  ELSE IF p[1] = q[1] THEN PathLess(Tail(p), Tail(q))
  ELSE p[1] < q[1]

\* Tuple comparison of (path, MarkdownFile) pairs: the paths of one walk are
\* pairwise different, so the first component decides.
TupleLess(a, b) == PathLess(a.path, b.path)

RECURSIVE SortedInsert(_, _)
SortedInsert(s, x) ==
  IF s = <<>> THEN <<x>>
  ELSE IF TupleLess(x, s[1]) THEN <<x>> \o s
  ELSE <<s[1]>> \o SortedInsert(Tail(s), x)

RECURSIVE sort(_)
sort(s) == IF s = <<>> THEN <<>> ELSE SortedInsert(sort(SubSeq(s, 1, Len(s) - 1)), s[Len(s)])

\* ------------------------------------------------------------ collect_md_files
Target(m) == IF m # None /\ m[1] # 0 THEN m ELSE Inf

LessThan(n, target) == IF target = Inf THEN TRUE ELSE n < target[1]

\* As AtLeast, with > in place of >=.
AtLeastStrict(n, target) == IF target = Inf THEN FALSE ELSE n > target[1]

AtLeast(n, target) == IF target = Inf THEN FALSE ELSE n >= target[1]

SkipMessage(path, reason) == [path |-> path, reason |-> reason]

\* As push, with the directory dropped instead of stacked.
pushNothing(s, path) == s

push(s, path) == Append(s, path)

Init ==
  /\ fs \in FileSystems
  /\ max_files \in {None} \cup {<<n>> : n \in 0..MaxTarget}
  /\ pc = "while"
  /\ stack = << <<>> >>
  /\ pending = {}
  /\ md_files = <<>>
  /\ skipped = <<>>
  /\ fp = None
  /\ handles = {}
  /\ channel = <<>>
  /\ included_files = <<>>
  /\ idx = 0
  /\ rendered = <<>>
  /\ result = [rss_tree |-> "pending", included |-> <<>>, errors |-> <<>>, items |-> <<>>]
  /\ stream = <<>>
  /\ md = NotConstructed

WhilePop ==
  /\ pc = "while"
  /\ stack # <<>>
  /\ LessThan(Len(md_files), Target(max_files))
  /\ pending' = scandir(stack[Len(stack)])
  /\ stack' = SubSeq(stack, 1, Len(stack) - 1)
  /\ pc' = "for"
  /\ UNCHANGED <<fs, max_files, md_files, skipped, fp, handles, channel,
                 included_files, idx, rendered, result, stream, md>>

ForDir ==
  /\ pc = "for"
  /\ \E path \in pending :
       /\ fs[path].is_dir
       /\ stack' = push(stack, path)
       /\ pending' = pending \ {path}
  /\ UNCHANGED <<fs, max_files, pc, md_files, skipped, fp, handles, channel,
                 included_files, idx, rendered, result, stream, md>>

ForFile ==
  /\ pc = "for"
  /\ \E path \in pending :
       /\ ~fs[path].is_dir
       /\ fp' = <<path>>
       /\ handles' = handles \cup {path}
       /\ LET m == MarkdownFile(fs[path].content)
          IN IF m.exc = ""
             THEN /\ md_files' = Append(md_files, [path |-> path, md |-> m])
                  /\ skipped' = skipped
             ELSE /\ skipped' = Append(skipped, SkipMessage(path, m.exc))
                  /\ md_files' = md_files
       /\ IF AtLeast(Len(md_files'), Target(max_files))
          THEN pending' = {} /\ pc' = "while"
          ELSE pending' = pending \ {path} /\ pc' = "for"
  /\ UNCHANGED <<fs, max_files, stack, channel, included_files, idx, rendered,
                 result, stream, md>>

ForEnd ==
  /\ pc = "for"
  /\ pending = {}
  /\ pc' = "while"
  /\ UNCHANGED <<fs, max_files, stack, pending, md_files, skipped, fp, handles,
                 channel, included_files, idx, rendered, result, stream, md>>

CollectReturn ==
  /\ pc = "while"
  /\ ~(stack # <<>> /\ LessThan(Len(md_files), Target(max_files)))
  /\ md_files' = sort(md_files)
  /\ fp' = None
  /\ pc' = "main"
  /\ UNCHANGED <<fs, max_files, stack, pending, skipped, handles, channel,
                 included_files, idx, rendered, result, stream, md>>

\* ------------------------------------------------------------ main
NoFilesMessage == [path |-> <<>>, reason |-> "No markdown files found"]

\* As EmptyResult, returning the collected messages instead of the diagnostic.
EmptyResultCollected(errors) ==
  [rss_tree |-> "None", included |-> <<>>, errors |-> errors, items |-> <<>>]

EmptyResult(errors) ==
  [rss_tree |-> "None", included |-> <<>>, errors |-> <<NoFilesMessage>>, items |-> <<>>]

Item(entry) == [path |-> entry.path, title |-> entry.md.title, pubDate |-> entry.md.pub_date]

\* As append_item, with the item attached to the channel before it is filled.
append_itemEager(ch, entry, ok) == Append(ch, Item(entry))

\* RssElementTree.append_item: the item is attached to the channel by the
\* last statement, after md_file.content has been evaluated.
append_item(ch, entry, ok) == IF ok THEN Append(ch, Item(entry)) ELSE ch

\* As close, called only on the path where the item was appended.
closeOnSuccess(hs, entry, ok) == IF ok THEN hs \ {entry.path} ELSE hs

\* The handles open after main's loop body has run for entry.
close(hs, entry, ok) == hs \ {entry.path}

MainEmpty ==
  /\ pc = "main"
  /\ md_files = <<>>
  /\ result' = EmptyResult(skipped)
  /\ pc' = "done"
  /\ UNCHANGED <<fs, max_files, stack, pending, md_files, skipped, fp, handles,
                 channel, included_files, idx, rendered, stream, md>>

MainBuild ==
  /\ pc = "main"
  /\ md_files # <<>>
  /\ channel' = <<>>
  /\ included_files' = <<>>
  /\ idx' = 1
  /\ pc' = "loop"
  /\ UNCHANGED <<fs, max_files, stack, pending, md_files, skipped, fp, handles,
                 rendered, result, stream, md>>

LoopBody ==
  /\ pc = "loop"
  /\ idx <= Len(md_files)
  /\ \E ok \in BOOLEAN :
       LET entry == md_files[idx]
       IN /\ channel' = append_item(channel, entry, ok)
          /\ included_files' = IF ok THEN Append(included_files, entry.path)
                               ELSE included_files
          /\ skipped' = IF ok THEN skipped
                        ELSE Append(skipped, SkipMessage(entry.path, "Could not convert to Markdown"))
          /\ handles' = close(handles, entry, ok)
          /\ rendered' = Append(rendered, ok)
  /\ idx' = idx + 1
  /\ UNCHANGED <<fs, max_files, pc, stack, pending, md_files, fp, result, stream, md>>

MainReturn ==
  /\ pc = "loop"
  /\ idx > Len(md_files)
  /\ result' = [rss_tree |-> "RssElementTree", included |-> included_files,
                errors |-> skipped, items |-> channel]
  /\ pc' = "done"
  /\ UNCHANGED <<fs, max_files, stack, pending, md_files, skipped, fp, handles,
                 channel, included_files, idx, rendered, stream, md>>

Next ==
  \/ WhilePop
  \/ ForDir
  \/ ForFile
  \/ ForEnd
  \/ CollectReturn
  \/ MainEmpty
  \/ MainBuild
  \/ LoopBody
  \/ MainReturn

Spec == Init /\ [][Next]_vars

\* ------------------------------------------------------------ parser specification
\* MarkdownFile applied to every bounded stream of at most three lines.
Lines(chars, n) == UNION {[1..k -> chars] : k \in 0..n}

TitleLines == Lines(TitleChars, MaxTitleLen)
SecondLines == {<<>>, <<" ">>, <<"A">>}
DateLines == Lines(DateChars, MaxDateLen)

Streams ==
  {<<>>} \cup {<<t>> : t \in TitleLines}
         \cup {<<t, b>> : t \in TitleLines, b \in SecondLines}
         \cup {<<t, b, d>> : t \in TitleLines, b \in SecondLines, d \in DateLines}

InitParse ==
  /\ stream \in Streams
  /\ md = NotConstructed
  /\ pc = "new"
  /\ fs = <<>>
  /\ max_files = None
  /\ stack = <<>>
  /\ pending = {}
  /\ md_files = <<>>
  /\ skipped = <<>>
  /\ fp = None
  /\ handles = {}
  /\ channel = <<>>
  /\ included_files = <<>>
  /\ idx = 0
  /\ rendered = <<>>
  /\ result = [rss_tree |-> "pending", included |-> <<>>, errors |-> <<>>, items |-> <<>>]

Construct ==
  /\ pc = "new"
  /\ md' = MarkdownFile(stream)
  /\ pc' = "constructed"
  /\ UNCHANGED <<stream, walkVars>>

NextParse == Construct

SpecParse == InitParse /\ [][NextParse]_vars

\* ------------------------------------------------------------ properties
Returned == pc \in {"main", "loop", "done"}

Files == {p \in DOMAIN fs : ~fs[p].is_dir}

Keys == {md_files[k].path : k \in 1..Len(md_files)}

Positive == max_files # None /\ max_files[1] > 0

\* (published_at, title) of a collected entry, compared as a pair.
KeyLeq(a, b) ==
  \/ a.md.pub_date < b.md.pub_date
  \/ a.md.pub_date = b.md.pub_date /\ ~StrLess(b.md.title, a.md.title)

\* C1: once collect_md_files has returned, consecutive entries of the mapping
\* are in non-decreasing order of (published_at, title).
C1_SortedByDateTitle ==
  Returned => \A k \in 1..(Len(md_files) - 1) : KeyLeq(md_files[k], md_files[k + 1])

\* C2: with max_files a positive N, at most N parsed files are held at every
\* step, and no file is opened once N are held.
C2_Bounded ==
  /\ [](Positive => Len(md_files) <= max_files[1])
  /\ [][(Positive /\ Len(md_files) >= max_files[1]) => handles' \subseteq handles]_vars

C2_Witness ==
  /\ pc = "main"
  /\ max_files = <<1>>
  /\ Len(md_files) = 1
  /\ \E p \in Files : p \notin handles /\ MarkdownFile(fs[p].content).exc = ""

\* The claim's own notion of an eligible file.
Eligible(c) ==
  /\ startswith(readline(c, 1), <<"#", " ">>)
  /\ startswith(readline(c, 3), <<"#", "#", " ">>)
  /\ IsIsoFormat(strip(lstrip(readline(c, 3), {"#"})))

SkipsOf(p) == {k \in 1..Len(skipped) : skipped[k].path = p}

C4_AlwaysDateMessage ==
  (pc = "constructed" /\ ~startswith(readline(stream, 3), <<"#", "#", " ">>))
    => md.exc = "Missing date header"

\* C4 (amended): a third line that does not start with "## " never gives a
\* Post; the message is the missing date header one when the first line
\* starts with "# ", and the missing title header one otherwise.
C4_DateMessageAfterTitle ==
  (pc = "constructed" /\ ~startswith(readline(stream, 3), <<"#", "#", " ">>))
    => md.exc = IF startswith(readline(stream, 1), <<"#", " ">>)
                THEN "Missing date header"
                ELSE "Missing title header"

C4_Witness ==
  /\ pc = "constructed"
  /\ startswith(readline(stream, 1), <<"#", " ">>)
  /\ readline(stream, 3) = <<"#", " ", "2023-01-01">>
  /\ md.exc = "Missing date header"

\* C5: every skip message recorded during the run is in the list main
\* returns, in discovery order, in every outcome.
C5_AllSkipsReturned ==
  pc = "done" => SelectSeq(result.errors, LAMBDA m : m # NoFilesMessage) = skipped

\* Handles the program has opened, not closed, and still refers to.
Referenced == Keys \cup {fp[k] : k \in 1..Len(fp)}

HeldOpen == handles \cap Referenced

C7_NonEmptyTitle ==
  (pc = "constructed" /\ md.exc = "") => md.title # <<>>

\* C8: when collection yields no post, main returns no feed, no included
\* file and a non-empty list of diagnostics.
C8_EmptyCollection ==
  (pc = "done" /\ md_files = <<>>) =>
    /\ result.rss_tree = "None"
    /\ result.items = <<>>
    /\ result.included = <<>>
    /\ result.errors # <<>>

C8_Witness ==
  /\ pc = "done"
  /\ md_files = <<>>
  /\ skipped = <<>>
  /\ result.rss_tree = "None"

\* C9: a feed returned by main has at least one item and at least one
\* included file.
C9_NoEmptyFeed ==
  (pc = "done" /\ result.rss_tree # "None") =>
    /\ result.items # <<>>
    /\ result.included # <<>>

\* The entries of md_files[1..n] whose rendering succeeded, in order.
RECURSIVE RenderedOk(_)
RenderedOk(n) ==
  IF n = 0 THEN <<>>
  ELSE IF rendered[n] THEN Append(RenderedOk(n - 1), md_files[n])
  ELSE RenderedOk(n - 1)

RECURSIVE RenderedBad(_)
RenderedBad(n) ==
  IF n = 0 THEN <<>>
  ELSE IF rendered[n] THEN RenderedBad(n - 1)
  ELSE Append(RenderedBad(n - 1), md_files[n])

RenderSkips == SelectSeq(skipped, LAMBDA m : m.reason = "Could not convert to Markdown")

\* C10: in the feed loop a post whose rendering fails adds no item, adds one
\* message, has its handle closed and does not stop the loop; the items match
\* the included files one to one, in the collector's order.
C10_RenderFailureIsolated ==
  pc \in {"loop", "done"} /\ md_files # <<>> =>
    LET n == Len(rendered)
        good == RenderedOk(n)
        bad == RenderedBad(n)
    IN /\ n = idx - 1
       /\ channel = [k \in 1..Len(good) |-> Item(good[k])]
       /\ included_files = [k \in 1..Len(good) |-> good[k].path]
       /\ RenderSkips = [k \in 1..Len(bad) |-> SkipMessage(bad[k].path, "Could not convert to Markdown")]
       /\ \A k \in 1..n : md_files[k].path \notin handles
       /\ pc = "done" =>
            /\ n = Len(md_files)
            /\ result.items = channel
            /\ result.included = included_files
            /\ Len(result.items) = Len(result.included)
            /\ \A k \in 1..Len(result.items) : result.items[k].path = result.included[k]

C10_Witness ==
  /\ pc = "done"
  /\ result.rss_tree = "RssElementTree"
  /\ rendered = <<FALSE, TRUE>>
  /\ Len(result.items) = 1
  /\ result.items[1].path = md_files[2].path

====
